---- MODULE Spec2Model ----
(***************************************************************************)
(* A model of mcp-grafana: the pydantic wire models of grafana_types.py,   *)
(* the request builders of client.py and the tool functions of tools/.     *)
(*                                                                         *)
(* JSON / Python values are modelled as follows.  An optional value is     *)
(* None (the empty tuple) or Some(v) (a one-element tuple); a dict is a    *)
(* function from string keys to such optional values; a list is a          *)
(* sequence; str is a TLA+ string; a pydantic model instance is a record   *)
(* [cls, fields, set, extra] where fields maps every Python field name to  *)
(* its value, set is pydantic's model_fields_set and extra holds the keys  *)
(* kept under ConfigDict(extra="allow").                                   *)
(***************************************************************************)
EXTENDS Integers, Sequences, FiniteSets, TLC

VARIABLES
    pc,        \* "idle" | "awaiting" (a request is in flight) | "done"
    tool,      \* name of the tool being invoked, "" when idle
    args,      \* the caller's arguments of the invocation
    http,      \* the HTTP requests issued by this invocation, in order
    response,  \* the HTTP response the invocation received, None before
    outcome,   \* [kind |-> "none" | "return" | "raise", ...]
    stage,     \* position of the type-level round trip
    cls,       \* the wire model class of the round trip
    wire,      \* the wire-shaped dict being decoded
    encoder,   \* "model_dump" or "query_list.dump_python", "" before
    instance,  \* result of the latest model_validate
    dumped,    \* the encodings made so far, in order
    settings,  \* grafana_settings: the enabled flag of each tool group, api_key
    registered,\* the names handed to mcp.add_tool so far, in order
    rpc,       \* position of the start-up: "start", a group of add_tools, "served"
    calls,     \* the tool coroutine of each concurrent call: pc, tool, args, outcome
    pool,      \* grafana_client.c: the request in flight for each awaiting call
    received   \* the response the HTTP client has read for each call's request

vars == <<pc, tool, args, http, response, outcome, stage, cls, wire, encoder, instance, dumped, settings, registered, rpc, calls, pool, received>>

toolVars == <<pc, tool, args, http, response, outcome>>
typeVars == <<stage, cls, wire, encoder, instance, dumped>>
regVars == <<settings, registered, rpc>>
concVars == <<calls, pool, received>>

----------------------------------------------------------------------------
(* Optional values and dicts *)

None == <<>>
Some(v) == <<v>>
Val(o) == o[1]

EmptyDict == [k \in {} |-> None]

\* dict with the keys of d outside ks removed
Restrict(d, ks) == [k \in (DOMAIN d) \cap ks |-> d[k]]

----------------------------------------------------------------------------
(* Field declarations of the pydantic models.                              *)
(* valias is the name accepted on validation, salias the name emitted with *)
(* by_alias=True.  Field(alias=...) sets both; serialization_alias sets    *)
(* only salias and leaves validation on the Python name.                   *)

SearchLimitDefault == 1000

Fld(n, va, sa, req, dflt, nul, sub) ==
    [name |-> n, valias |-> va, salias |-> sa, required |-> req,
     default |-> dflt, nullable |-> nul, nested |-> sub]

Required(n, alias) == Fld(n, alias, alias, TRUE, None, FALSE, "")
Optional(n, alias, dflt, nul) == Fld(n, alias, alias, FALSE, dflt, nul, "")

DatasourceFields ==
    << Required("id", "id"), Required("uid", "uid"), Required("name", "name"),
      Required("type", "type"), Required("access", "access"),
      Required("url", "url"), Required("user", "user"),
      Required("database", "database"),
      Required("basic_auth", "basicAuth"),
      Optional("basic_auth_user", "basicAuthUser", None, TRUE),
      Required("is_default", "isDefault"),
      Optional("json_data", "jsonData", Some(EmptyDict), FALSE),
      Optional("secure_json_fields", "secureJsonData", Some(EmptyDict), FALSE) >>

SearchDashboardsArgumentsFields ==
    << Fld("query", "query", "query", TRUE, None, TRUE, ""),
      Optional("tags", "tags", None, TRUE),
      Optional("type", "type", None, TRUE),
      Optional("dashboard_ids", "dashboardIds", None, TRUE),
      Fld("dashboard_uids", "dashboard_uids", "dashboardUIDs", FALSE, None, TRUE, ""),
      Fld("folder_uids", "folder_uids", "folderUIDs", FALSE, None, TRUE, ""),
      Optional("starred", "starred", Some(FALSE), FALSE),
      Optional("limit", "limit", Some(SearchLimitDefault), FALSE),
      Optional("page", "page", Some(1), FALSE) >>

DatasourceRefFields ==
    << Required("uid", "uid"), Required("type", "type") >>

QueryFields ==
    << Required("ref_id", "refId"),
      Fld("datasource", "datasource", "datasource", TRUE, None, FALSE, "DatasourceRef"),
      Required("query_type", "queryType"),
      Optional("interval_ms", "intervalMs", None, TRUE) >>

ListIncidentsArgumentsFields ==
    << Optional("query", "query", None, TRUE),
      Optional("limit", "limit", Some(10), FALSE),
      Optional("status", "status", None, TRUE) >>

IncidentPreviewsQueryFields ==
    << Required("limit", "limit"),
      Required("order_direction", "orderDirection"),
      Required("order_field", "orderField"),
      Required("query_string", "queryString") >>

QueryIncidentPreviewsRequestFields ==
    << Fld("query", "query", "query", TRUE, None, FALSE, "IncidentPreviewsQuery"),
      Required("include_custom_field_values", "includeCustomFieldValues") >>

\* the ListIncidentsArguments of tools/incident.py, the argument of the
\* list_incidents tool (grafana_types.py declares another class of this name)
ToolListIncidentsArgumentsFields ==
    << Optional("limit", "limit", Some(10), FALSE),
      Optional("drill", "drill", Some(FALSE), FALSE),
      Optional("status", "status", None, TRUE) >>

CreateIncidentArgumentsFields ==
    << Required("title", "title"), Required("description", "description"),
      Optional("severity", "severity", None, TRUE),
      Optional("room_prefix", "roomPrefix", Some("incident"), FALSE),
      Optional("is_drill", "isDrill", Some(FALSE), FALSE),
      Optional("status", "status", Some("active"), FALSE),
      Optional("attach_caption", "attachCaption", Some(""), FALSE),
      Optional("attach_url", "attachUrl", Some(""), FALSE),
      Optional("labels", "labels", Some(<<>>), FALSE) >>

AddActivityToIncidentArgumentsFields ==
    << Required("incident_id", "incidentId"),
      Required("activity_kind", "activityKind"),
      Required("body", "body"),
      Optional("event_time", "eventTime", None, TRUE) >>

\* ResponseWrapper[T]: both fields are required
ResponseWrapperFields ==
    << Required("status", "status"), Required("data", "data") >>

DSQueryResponseFields ==
    << Required("results", "results") >>

ModelFields(c) ==
    CASE c = "Datasource" -> DatasourceFields
      [] c = "SearchDashboardsArguments" -> SearchDashboardsArgumentsFields
      [] c = "DatasourceRef" -> DatasourceRefFields
      [] c = "Query" -> QueryFields
      [] c = "ListIncidentsArguments" -> ListIncidentsArgumentsFields
      [] c = "IncidentPreviewsQuery" -> IncidentPreviewsQueryFields
      [] c = "QueryIncidentPreviewsRequest" -> QueryIncidentPreviewsRequestFields
      [] c = "ResponseWrapper" -> ResponseWrapperFields
      [] c = "DSQueryResponse" -> DSQueryResponseFields
      [] c = "tools.ListIncidentsArguments" -> ToolListIncidentsArgumentsFields
      [] c = "CreateIncidentArguments" -> CreateIncidentArgumentsFields
      [] c = "AddActivityToIncidentArguments" ->
             AddActivityToIncidentArgumentsFields

\* no model keeping unknown keys
ExtraAllowed_Never(c) == FALSE

\* model_config = ConfigDict(extra="allow") is set on Query alone; the
\* other models keep pydantic's default, extra="ignore".
ExtraAllowed(c) == c = "Query"

FieldIndex(c) == DOMAIN ModelFields(c)
FieldNames(c) == { ModelFields(c)[i].name : i \in FieldIndex(c) }
FieldNamed(c, n) ==
    ModelFields(c)[CHOOSE i \in FieldIndex(c) : ModelFields(c)[i].name = n]
ValidationAliases(c) == { ModelFields(c)[i].valias : i \in FieldIndex(c) }
SerializationAliases(c) == { ModelFields(c)[i].salias : i \in FieldIndex(c) }
FieldBySalias(c, k) ==
    ModelFields(c)[CHOOSE i \in FieldIndex(c) : ModelFields(c)[i].salias = k]

\* the constraints with le=100 left off the limit of the list_incidents tool
ConstraintOk_NoUpperLimit(c, n, x) ==
    CASE c = "tools.ListIncidentsArguments" /\ n = "status" ->
             x \in {"resolved", "active"}
      [] c = "tools.ListIncidentsArguments" /\ n = "limit" -> x >= 1
      [] OTHER -> TRUE

\* Literal[...] and ge/le constraints of the declarations, on a non-None value
ConstraintOk(c, n, x) ==
    CASE c = "SearchDashboardsArguments" /\ n = "type" ->
             x \in {"dash-db", "dash-folder"}
      [] c = "ListIncidentsArguments" /\ n = "status" ->
             x \in {"resolved", "active"}
      [] c = "ListIncidentsArguments" /\ n = "limit" -> x >= 1 /\ x <= 100
      [] c = "QueryIncidentPreviewsRequest" /\ n = "include_custom_field_values" ->
             x = TRUE
      [] c = "tools.ListIncidentsArguments" /\ n = "status" ->
             x \in {"resolved", "active"}
      [] c = "tools.ListIncidentsArguments" /\ n = "limit" -> x >= 1 /\ x <= 100
      [] c = "CreateIncidentArguments" /\ n = "severity" ->
             x \in {"minor", "major", "critical"}
      [] c = "CreateIncidentArguments" /\ n = "status" ->
             x \in {"resolved", "active"}
      [] c = "AddActivityToIncidentArguments" /\ n = "activity_kind" ->
             x = "userNote"
      [] OTHER -> TRUE

----------------------------------------------------------------------------
(* pydantic validation: cls.model_validate(v), and construction by keywords *)

RECURSIVE ValidationOk(_, _)
ValidationOk(c, v) ==
    \A i \in FieldIndex(c) :
        LET f == ModelFields(c)[i] IN
        IF f.valias \notin DOMAIN v THEN ~f.required
        ELSE IF v[f.valias] = None THEN f.nullable
        ELSE /\ ConstraintOk(c, f.name, Val(v[f.valias]))
             /\ (f.nested # "" => ValidationOk(f.nested, Val(v[f.valias])))

RECURSIVE Instance(_, _)
Instance(c, v) ==
    [cls |-> c,
     fields |-> [n \in FieldNames(c) |->
                    LET f == FieldNamed(c, n) IN
                    IF f.valias \notin DOMAIN v THEN f.default
                    ELSE IF f.nested # "" /\ v[f.valias] # None
                         THEN Some(Instance(f.nested, Val(v[f.valias])))
                         ELSE v[f.valias]],
     set |-> { n \in FieldNames(c) : FieldNamed(c, n).valias \in DOMAIN v },
     extra |-> IF ExtraAllowed(c)
               THEN Restrict(v, (DOMAIN v) \ ValidationAliases(c))
               ELSE EmptyDict]

\* [ok |-> FALSE] stands for pydantic.ValidationError
ModelValidate(c, v) ==
    IF ValidationOk(c, v) THEN [ok |-> TRUE, inst |-> Instance(c, v)]
    ELSE [ok |-> FALSE]

----------------------------------------------------------------------------
(* str, int and datetime conversions *)

Digits == <<"0", "1", "2", "3", "4", "5", "6", "7", "8", "9">>
DigitValue(ch) == (CHOOSE i \in DOMAIN Digits : Digits[i] = ch) - 1

\* str(n) of an int n >= 0
RECURSIVE IntToStr(_)
IntToStr(n) ==
    IF n < 10 THEN Digits[n + 1]
    ELSE IntToStr(n \div 10) \o Digits[(n % 10) + 1]

\* int(s) of a string of decimal digits
RECURSIVE StrToInt(_)
StrToInt(s) ==
    IF Len(s) = 0 THEN 0
    ELSE 10 * StrToInt(SubSeq(s, 1, Len(s) - 1))
         + DigitValue(SubSeq(s, Len(s), Len(s)))

\* n zero-padded to width w, as in the format spec 0wd
RECURSIVE ZeroPad(_, _)
ZeroPad(n, w) ==
    IF Len(IntToStr(n)) >= w THEN IntToStr(n)
    ELSE "0" \o ZeroPad(n, w - 1) 

\* datetime.fromisoformat on strings 1970-01-01THH:MM:SS[.ffffff]+00:00.
\* A datetime is [hour, minute, second, microsecond] on 1970-01-01 UTC.
fromisoformat(s) ==
    [hour |-> StrToInt(SubSeq(s, 12, 13)),
     minute |-> StrToInt(SubSeq(s, 15, 16)),
     second |-> StrToInt(SubSeq(s, 18, 19)),
     microsecond |-> IF SubSeq(s, 20, 20) = "."
                     THEN StrToInt(SubSeq(s, 21, 26)) ELSE 0]

\* datetime.isoformat(): the microseconds are printed only when non-zero
isoformat(dt) ==
    "1970-01-01T" \o ZeroPad(dt.hour, 2) \o ":" \o ZeroPad(dt.minute, 2)
    \o ":" \o ZeroPad(dt.second, 2)
    \o (IF dt.microsecond # 0 THEN "." \o ZeroPad(dt.microsecond, 6) ELSE "")
    \o "+00:00"

\* the whole milliseconds from the epoch to dt, in exact arithmetic
WholeMillis(dt) ==
    ((dt.hour * 60 + dt.minute) * 60 + dt.second) * 1000
    + (dt.microsecond \div 1000)

\* dt.timestamp() is a binary64 float and so is its product with 1000.
\* The datetimes below are those, among the ones the model feeds, whose
\* product is the largest float under the whole number of milliseconds
\* (1.001 * 1000 is 1000.9999999999999); every other one has a product that
\* is no less than the whole number and less than the next.
ProductBelowWhole ==
    { [hour |-> 0, minute |-> 0, second |-> 1, microsecond |-> 1000] }

\* math.floor(dt.timestamp() * 1000)
TimestampMillis(dt) ==
    IF dt \in ProductBelowWhole THEN WholeMillis(dt) - 1 ELSE WholeMillis(dt)

----------------------------------------------------------------------------
(* pydantic serialization with by_alias=True *)

\* the serializer of a field's type.  CustomDateTime carries
\* PlainSerializer(lambda _datetime: _datetime.isoformat(), return_type=str);
\* every other type modelled here dumps as the value itself.
PlainSerializer(c, n, x) ==
    IF c = "AddActivityToIncidentArguments" /\ n = "event_time"
    THEN isoformat(x) ELSE x

RECURSIVE Serialize(_, _, _, _)
Serialize(inst, exclude_unset, exclude_none, exclude_defaults) ==
    LET c == inst.cls
        kept == { n \in FieldNames(c) :
                    /\ exclude_unset => n \in inst.set
                    /\ exclude_none => inst.fields[n] # None
                    /\ exclude_defaults =>
                           inst.fields[n] # FieldNamed(c, n).default }
        keptExtra == { k \in DOMAIN inst.extra :
                         exclude_none => inst.extra[k] # None }
        keys == { FieldNamed(c, n).salias : n \in kept }
    IN  [k \in keys \cup keptExtra |->
            IF k \in keys
            THEN LET f == FieldBySalias(c, k)
                     x == inst.fields[f.name]
                 IN  IF f.nested # "" /\ x # None
                     THEN Some(Serialize(Val(x), exclude_unset, exclude_none,
                                         exclude_defaults))
                     ELSE IF x = None THEN x
                     ELSE Some(PlainSerializer(c, f.name, Val(x)))
            ELSE inst.extra[k]]

\* BaseModel.model_dump with extra keywords: exclude_unset, exclude_none and by_alias
\* are forced to True; exclude_defaults is the one keyword a caller adds.
model_dump(inst, exclude_defaults) ==
    Serialize(inst, TRUE, TRUE, exclude_defaults)

\* query_list.dump_python(queries, by_alias=True): the TypeAdapter of
\* list[Query] serializes with pydantic's own defaults (nothing excluded);
\* BaseModel.model_dump is not on this path.
query_list_dump_python(queries) ==
    [i \in DOMAIN queries |-> Serialize(queries[i], FALSE, FALSE, FALSE)]

----------------------------------------------------------------------------
(* LabelMatcher.__str__ and Selector.__str__ *)

\* a LabelMatcher built from keywords; type defaults to "="
LabelMatcher(name, value, type) ==
    [name |-> name, value |-> value,
     type |-> IF type = None THEN "=" ELSE Val(type)]

\* the matcher rendered with PromQL's double quotes
LabelMatcherStr_DoubleQuoted(m) == m.name \o m.type \o "\"" \o m.value \o "\""

LabelMatcherStr(m) == m.name \o m.type \o "'" \o m.value \o "'"

\* ", ".join(strs)
RECURSIVE Join(_, _)
Join(sep, strs) ==
    IF Len(strs) = 0 THEN ""
    ELSE IF Len(strs) = 1 THEN strs[1]
    ELSE strs[1] \o sep \o Join(sep, Tail(strs))

SelectorStr(sel) ==
    "{" \o Join(", ", [i \in DOMAIN sel.filters |-> LabelMatcherStr(sel.filters[i])])
    \o "}"

----------------------------------------------------------------------------
(* re.compile(regex).match(name), for regexes that are a sequence of       *)
(* literal characters and "." (any one character): the regex must match at *)
(* position 0 and need not consume the whole name.                         *)

CharAt(s, i) == SubSeq(s, i, i)

MatchesAt(regex, name, pos) ==
    /\ pos + Len(regex) - 1 <= Len(name)
    /\ \A i \in 1..Len(regex) :
          \/ CharAt(regex, i) = "."
          \/ CharAt(regex, i) = CharAt(name, pos + i - 1)

re_fullmatch(regex, name) == MatchesAt(regex, name, 1) /\ Len(regex) = Len(name)
re_search(regex, name) == \E pos \in 1..(Len(name) + 1) : MatchesAt(regex, name, pos)
re_match(regex, name) == MatchesAt(regex, name, 1)

\* the generator (name for name in names if compiled.match(name))
RECURSIVE Matching(_, _)
Matching(regex, names) ==
    IF Len(names) = 0 THEN <<>>
    ELSE (IF re_match(regex, Head(names)) THEN <<Head(names)>> ELSE <<>>)
         \o Matching(regex, Tail(names))

\* list(itertools.islice(it, start, stop)) for 0 <= start, 0 <= stop:
\* the elements of 0-based index start, ..., stop - 1 that exist
islice(it, start, stop) ==
    LET last == IF stop < Len(it) THEN stop ELSE Len(it)
    IN  IF start >= last THEN <<>> ELSE SubSeq(it, start + 1, last)

----------------------------------------------------------------------------
(* GrafanaClient: the request each method hands to get / post *)

Get(path, params) == [method |-> "GET", path |-> path, params |-> params]
Post(path, json) == [method |-> "POST", path |-> path, json |-> json]

\* GrafanaClient.search_dashboards up to the call of self.get:
\* params["query"] is read by subscript, which raises KeyError when the
\* dump holds no "query" key.
search_get(params) ==
    IF "query" \notin DOMAIN params
    THEN [ok |-> FALSE, error |-> "KeyError"]
    ELSE [ok |-> TRUE,
          request |-> Get("/api/search",
                          IF params["query"] = None
                          THEN Restrict(params, (DOMAIN params) \ {"query"})
                          ELSE params)]

\* the dump made without exclude_defaults
client_search_dashboards_KeepDefaults(arguments) ==
    search_get(model_dump(arguments, FALSE))

client_search_dashboards(arguments) == search_get(model_dump(arguments, TRUE))

client_list_incidents(body) ==
    Post("/api/plugins/grafana-incident-app/resources/api/IncidentsService.QueryIncidentPreviews",
         model_dump(body, FALSE))

client_list_datasources == Get("/api/datasources", None)

\* GrafanaClient.get_datasource up to the call of self.get
client_get_datasource(uid, name) ==
    IF uid # None
    THEN [ok |-> TRUE, request |-> Get("/api/datasources/uid/" \o Val(uid), None)]
    ELSE IF name # None
    THEN [ok |-> TRUE, request |-> Get("/api/datasources/name/" \o Val(name), None)]
    ELSE [ok |-> FALSE, error |-> "ValueError"]

client_create_incident(arguments) ==
    Post("/api/plugins/grafana-incident-app/resources/api/IncidentsService.CreateIncident",
         model_dump(arguments, FALSE))

\* the dump keeping the fields that are None
client_add_activity_to_incident_KeepNone(arguments) ==
    Post("/api/plugins/grafana-incident-app/resources/api/ActivityService.AddActivity",
         Serialize(arguments, TRUE, FALSE, FALSE))

client_add_activity_to_incident(arguments) ==
    Post("/api/plugins/grafana-incident-app/resources/api/ActivityService.AddActivity",
         model_dump(arguments, FALSE))

\* the body keyed as the other incident endpoints are
client_close_incident_LowerId(incident_id, summary) ==
    Post("/api/plugins/grafana-incident-app/resources/api/IncidentsService.CloseIncident",
         [incidentId |-> Some(incident_id), summary |-> Some(summary)])

client_close_incident(incident_id, summary) ==
    Post("/api/plugins/grafana-incident-app/resources/api/IncidentsService.CloseIncident",
         [incidentID |-> Some(incident_id), summary |-> Some(summary)])

client_query(from, to, queries) ==
    Post("/api/ds/query",
         [from |-> Some(IntToStr(TimestampMillis(from))),
          to |-> Some(IntToStr(TimestampMillis(to))),
          queries |-> Some(query_list_dump_python(queries))])

client_list_prometheus_metric_metadata(datasource_uid, limit, limit_per_metric, metric) ==
    LET keys == (IF limit # None THEN {"limit"} ELSE {})
                \cup (IF limit_per_metric # None THEN {"limitPerMetric"} ELSE {})
                \cup (IF metric # None THEN {"metric"} ELSE {})
    IN  Get("/api/datasources/proxy/uid/" \o datasource_uid \o "/api/v1/metadata",
            [k \in keys |->
                CASE k = "limit" -> limit
                  [] k = "limitPerMetric" -> limit_per_metric
                  [] k = "metric" -> metric])

\* the params dict shared by list_prometheus_label_names and
\* list_prometheus_label_values: a key is set only for a non-None argument
LabelParams(matches, start, end, limit) ==
    LET keys == (IF matches # None THEN {"match[]"} ELSE {})
                \cup (IF start # None THEN {"start"} ELSE {})
                \cup (IF end # None THEN {"end"} ELSE {})
                \cup (IF limit # None THEN {"limit"} ELSE {})
    IN  [k \in keys |->
            CASE k = "match[]" ->
                    Some([i \in DOMAIN Val(matches) |-> SelectorStr(Val(matches)[i])])
              [] k = "start" -> Some(isoformat(Val(start)))
              [] k = "end" -> Some(isoformat(Val(end)))
              [] k = "limit" -> limit]

client_list_prometheus_label_names(datasource_uid, matches, start, end, limit) ==
    Get("/api/datasources/proxy/uid/" \o datasource_uid \o "/api/v1/labels",
        LabelParams(matches, start, end, limit))

client_list_prometheus_label_values(datasource_uid, label_name, matches, start, end, limit) ==
    Get("/api/datasources/proxy/uid/" \o datasource_uid \o "/api/v1/label/"
            \o label_name \o "/values",
        LabelParams(matches, start, end, limit))

\* success taken to be 200 alone
is_success_OnlyOk(status) == status = 200

\* httpx Response.is_success
is_success(status) == status >= 200 /\ status <= 299

----------------------------------------------------------------------------
(* Response decoding *)

\* the unwrapping also requiring status "success"
ResponseWrapperData_StatusChecked(body) ==
    LET r == ModelValidate("ResponseWrapper", body) IN
    IF r.ok /\ r.inst.fields["status"] = Some("success")
    THEN [ok |-> TRUE, data |-> Val(r.inst.fields["data"])]
    ELSE [ok |-> FALSE]

\* ResponseWrapper[T].model_validate_json(response).data
ResponseWrapperData(body) ==
    IF ModelValidate("ResponseWrapper", body).ok
    THEN [ok |-> TRUE,
          data |-> Val(ModelValidate("ResponseWrapper", body).inst.fields["data"])]
    ELSE [ok |-> FALSE]

NoOutcome == [kind |-> "none"]
Return(v) == [kind |-> "return", value |-> v]
Raise(e, d) == [kind |-> "raise", error |-> e, detail |-> d]

----------------------------------------------------------------------------
(* The tools, up to their first await of the client *)

Ready(req) == [ok |-> TRUE, request |-> req]
Failed(e) == [ok |-> FALSE, error |-> e]

\* await of a client method r: its request goes out, or its exception
\* propagates out of the tool
Await(r) == IF r.ok THEN Ready(r.request) ELSE Failed(r.error)

\* the query string with the conjunction left out after an empty prefix
QueryString_NoLeadingAnd(drill, status) ==
    (IF ~drill THEN "isdrill:false" ELSE "")
    \o (IF status # None
        THEN (IF drill THEN "status:" ELSE " and status:") \o Val(status)
        ELSE "")

QueryString(drill, status) ==
    (IF ~drill THEN "isdrill:false" ELSE "")
    \o (IF status # None THEN " and status:" \o Val(status) ELSE "")

\* the request ordered oldest first
list_incidents_request_Ascending(a) ==
    LET body == Instance("QueryIncidentPreviewsRequest",
                    [query |-> Some([queryString |-> Some(QueryString(a.drill, a.status)),
                                     orderDirection |-> Some("ASC"),
                                     orderField |-> Some("createdTime"),
                                     limit |-> Some(a.limit)]),
                     includeCustomFieldValues |-> Some(TRUE)])
    IN  Ready(client_list_incidents(body))

list_incidents_request(a) ==
    LET body == Instance("QueryIncidentPreviewsRequest",
                    [query |-> Some([queryString |-> Some(QueryString(a.drill, a.status)),
                                     orderDirection |-> Some("DESC"),
                                     orderField |-> Some("createdTime"),
                                     limit |-> Some(a.limit)]),
                     includeCustomFieldValues |-> Some(TRUE)])
    IN  Ready(client_list_incidents(body))

create_incident_request(a) == Ready(client_create_incident(a))

\* AddActivityToIncidentArguments is built by keywords, which validates it
add_activity_to_incident_request(a) ==
    LET v == [incidentId |-> Some(a.incident_id), body |-> Some(a.body),
              activityKind |-> Some("userNote"), eventTime |-> a.event_time]
    IN  IF ValidationOk("AddActivityToIncidentArguments", v)
        THEN Ready(client_add_activity_to_incident(
                       Instance("AddActivityToIncidentArguments", v)))
        ELSE Failed("ValidationError")

resolve_incident_request(a) ==
    Ready(client_close_incident(a.incident_id, a.summary))

list_datasources_request(a) == Ready(client_list_datasources)

get_datasource_by_uid_request(a) ==
    Await(client_get_datasource(Some(a.uid), None))

get_datasource_by_name_request(a) ==
    Await(client_get_datasource(None, Some(a.name)))

\* step_seconds taken as milliseconds
interval_ms_Unscaled(step_seconds) ==
    IF step_seconds # None THEN Some(Val(step_seconds)) ELSE None

\* interval_ms = step_seconds * 1000 if step_seconds is not None else None
interval_ms(step_seconds) ==
    IF step_seconds # None THEN Some(Val(step_seconds) * 1000) ELSE None

\* the range check failing only when both end and step are missing
query_prometheus_request_BothMissing(a) ==
    IF a.query_type = "range" /\ (a.end_rfc3339 = None /\ a.step_seconds = None)
    THEN Failed("ValueError")
    ELSE LET start == fromisoformat(a.start_rfc3339)
             end == IF a.end_rfc3339 # None
                    THEN fromisoformat(Val(a.end_rfc3339)) ELSE start
             query == Instance("Query",
                         [refId |-> Some("A"),
                          datasource |-> Some([uid |-> Some(a.datasource_uid),
                                               type |-> Some("prometheus")]),
                          queryType |-> Some(a.query_type),
                          expr |-> Some(a.expr),
                          intervalMs |-> interval_ms(a.step_seconds)])
         IN  Ready(client_query(start, end, <<query>>))

query_prometheus_request(a) ==
    IF a.query_type = "range" /\ (a.end_rfc3339 = None \/ a.step_seconds = None)
    THEN Failed("ValueError")
    ELSE LET start == fromisoformat(a.start_rfc3339)
             end == IF a.end_rfc3339 # None
                    THEN fromisoformat(Val(a.end_rfc3339)) ELSE start
             query == Instance("Query",
                         [refId |-> Some("A"),
                          datasource |-> Some([uid |-> Some(a.datasource_uid),
                                               type |-> Some("prometheus")]),
                          queryType |-> Some(a.query_type),
                          expr |-> Some(a.expr),
                          intervalMs |-> interval_ms(a.step_seconds)])
         IN  Ready(client_query(start, end, <<query>>))

search_dashboards_request(a) == Await(client_search_dashboards(a))

LabelNamesDefaultLimit == 100
LabelValuesDefaultLimit == 100
MetadataDefaultLimit == 10
MetadataDefaultLimitPerMetric == 10

list_prometheus_metric_metadata_request(a) ==
    Ready(client_list_prometheus_metric_metadata(
              a.datasource_uid, Some(a.limit), Some(a.limit_per_metric), a.metric))

list_prometheus_label_names_request(a) ==
    Ready(client_list_prometheus_label_names(
              a.datasource_uid, a.matches, a.start, a.end, Some(a.limit)))

list_prometheus_label_values_request(a) ==
    Ready(client_list_prometheus_label_values(
              a.datasource_uid, a.label_name, a.matches, a.start, a.end,
              Some(a.limit)))

\* the caller's limit handed on to list_prometheus_label_values
list_prometheus_metric_names_request_CallerLimit(a) ==
    list_prometheus_label_values_request(
        [datasource_uid |-> a.datasource_uid, label_name |-> "__name__",
         matches |-> None, start |-> None, end |-> None,
         limit |-> a.limit])

\* list_prometheus_metric_names begins with
\* list_prometheus_label_values(datasource_uid, "__name__"), every other
\* parameter at its default
list_prometheus_metric_names_request(a) ==
    list_prometheus_label_values_request(
        [datasource_uid |-> a.datasource_uid, label_name |-> "__name__",
         matches |-> None, start |-> None, end |-> None,
         limit |-> LabelValuesDefaultLimit])

----------------------------------------------------------------------------
(* The tools, from the bytes the client returned to their result *)

UnwrapOutcome(body) ==
    IF ResponseWrapperData(body).ok
    THEN Return(ResponseWrapperData(body).data)
    ELSE Raise("ValidationError", body)

\* list(itertools.islice(matches, start, stop)); islice raises ValueError
\* for a negative start or stop
islice_list(matches, start, stop) ==
    IF start < 0 \/ stop < 0 THEN Raise("ValueError", "islice")
    ELSE Return(islice(matches, start, stop))

\* start = (page - 1) * limit, stop = start + limit
list_prometheus_metric_names_result(a, body) ==
    IF ~ResponseWrapperData(body).ok THEN Raise("ValidationError", body)
    ELSE islice_list(Matching(a.regex, ResponseWrapperData(body).data),
                     (a.page - 1) * a.limit,
                     (a.page - 1) * a.limit + a.limit)

query_prometheus_result(body) ==
    IF ModelValidate("DSQueryResponse", body).ok
    THEN Return(ModelValidate("DSQueryResponse", body).inst)
    ELSE Raise("ValidationError", body)

Complete(t, a, body) ==
    CASE t \in {"list_incidents", "create_incident", "add_activity_to_incident",
                "resolve_incident", "search_dashboards", "list_datasources",
                "get_datasource_by_uid", "get_datasource_by_name"} -> Return(body)
      [] t \in {"list_prometheus_metric_metadata", "list_prometheus_label_names",
                  "list_prometheus_label_values"} -> UnwrapOutcome(body)
      [] t = "query_prometheus" -> query_prometheus_result(body)
      [] t = "list_prometheus_metric_names" ->
             list_prometheus_metric_names_result(a, body)

\* GrafanaClient.get / GrafanaClient.post once httpx has the response r
Transport(t, a, r) ==
    IF ~is_success(r.status) THEN Raise("GrafanaError", r.body)
    ELSE Complete(t, a, r.body)

----------------------------------------------------------------------------
(* Bounded inputs *)

MaxNames == 3      \* longest label-value list a response carries
MaxLimit == 2      \* largest limit given to list_prometheus_metric_names
MaxPage == 3       \* largest page given to list_prometheus_metric_names

Optionally(S) == {None} \cup { Some(x) : x \in S }

DatasourceUids == {"prom"}
DatasourceNames == {"Prometheus"}
Exprs == {"up"}
TimeInputs ==
    {"1970-01-01T00:00:01+00:00", "1970-01-01T00:00:02.000500+00:00",
     "1970-01-01T00:00:01.001000+00:00"}
LabelTimes == { fromisoformat("1970-01-01T00:00:02.000500+00:00") }
StepInputs == {15, 60}
IncidentLimits == {1, 10, 100}
IncidentLimitsOutside == {0, 101}
IncidentStatuses == {"resolved", "active"}
IncidentStatusesOutside == {"closed"}

Names == {"a", "ab", "ba"}
Regexes == {"", "a", "b.", "."}

RECURSIVE SeqsUpTo(_, _)
SeqsUpTo(S, n) ==
    IF n = 0 THEN {<<>>}
    ELSE LET shorter == SeqsUpTo(S, n - 1)
         IN  shorter \cup { Append(q, x) : q \in shorter, x \in S }

\* a list of n names, as a server answers that has many metrics: n at the
\* limit of the request when it honours the limit, n above it when not
ManyNames(n) == [i \in 1..n |-> IF i = n THEN "ab" ELSE "a"]
NamesLists ==
    SeqsUpTo(Names, MaxNames)
    \cup {ManyNames(LabelValuesDefaultLimit), ManyNames(LabelValuesDefaultLimit + 1)}

\* the limits a caller gives list_prometheus_metric_names
MetricNamesLimits == (0..MaxLimit) \cup {LabelValuesDefaultLimit}

Selector(filters) == [filters |-> filters]
MatchesInputs ==
    { None,
      Some(<<>>),
      Some(<<Selector(<<LabelMatcher("job", "node", None)>>)>>),
      Some(<<Selector(<<LabelMatcher("env", "prod", Some("!=")),
                        LabelMatcher("job", "n.*", Some("~"))>>),
             Selector(<<LabelMatcher("job", "node", Some("="))>>)>>),
      Some(<<Selector(<<>>), Selector(<<LabelMatcher("x", "y", Some("!~"))>>)>>) }
LabelLimits == {5, LabelValuesDefaultLimit}
LabelNames == {"job"}
MetadataLimits == {5, MetadataDefaultLimit}
Metrics == {"up"}
IncidentIds == {"42"}
Texts == {"note"}
EventTimes ==
    { fromisoformat("1970-01-01T00:00:01+00:00"),
      fromisoformat("1970-01-01T00:00:02.000500+00:00") }

\* a dict holding key k with one of the values vs, or not holding it
Maybe(k, vs) == {EmptyDict} \cup { k :> v : v \in vs }
Surely(k, vs) == { k :> v : v \in vs }

\* the names of x's keys that the caller gave a value
Given(x) == { k \in DOMAIN x : x[k] # None }

ListIncidentsInputs ==
    { l @@ d @@ st :
        l \in Maybe("limit", { Some(n) : n \in IncidentLimits \cup IncidentLimitsOutside }),
        d \in Maybe("drill", {Some(FALSE), Some(TRUE)}),
        st \in Maybe("status",
                     Optionally(IncidentStatuses \cup IncidentStatusesOutside)) }

CreateIncidentInputs ==
    { [title |-> Some("t"), description |-> Some("d")]
        @@ sv @@ rp @@ dr @@ st @@ ac @@ lb :
        sv \in Maybe("severity", {None, Some("minor")}),
        rp \in Maybe("roomPrefix", {Some("incident"), Some("room")}),
        dr \in Maybe("isDrill", {Some(FALSE)}),
        st \in Maybe("status", {Some("active"), Some("resolved")}),
        ac \in Maybe("attachCaption", {Some("")}),
        lb \in Maybe("labels", {Some(<<>>)}) }

SearchDashboardsInputs ==
    { q @@ st @@ li @@ pg @@ ids @@ uw @@ up @@ fw :
        q \in Maybe("query", {None, Some("x")}),
        st \in Maybe("starred", {Some(FALSE), Some(TRUE)}),
        li \in Maybe("limit", {Some(SearchLimitDefault), Some(5)}),
        pg \in Maybe("page", {Some(1), Some(2)}),
        ids \in Maybe("dashboardIds", {Some(<<1234>>)}),
        uw \in Maybe("dashboardUIDs", {Some(<<"u1">>)}),
        up \in Maybe("dashboard_uids", {Some(<<"u2">>)}),
        fw \in Maybe("folderUIDs", {Some(<<"f1">>)}) }

\* HTTP statuses and bodies the server may answer with
SuccessStatuses == {200, 299}
FailureStatuses == {300, 400, 500}
RawBody == "bytes"
ErrorBody == "error text"

\* the JSON objects an enveloped endpoint may answer with: status and data
\* each present or not, and one envelope with a further field
Envelopes(lists) ==
    { st @@ da :
        st \in Maybe("status", {Some("success"), Some("error")}),
        da \in Maybe("data", { Some(l) : l \in lists }) }
    \cup { [status |-> Some("success"), data |-> Some(<<"a">>),
            warnings |-> Some(<<"w">>)] }

QueryBodies == Maybe("results", {Some(EmptyDict)})

\* the answers of /api/v1/metadata: data maps a metric name to its metadata
MetadataBodies ==
    { st @@ da :
        st \in Maybe("status", {Some("success"), Some("error")}),
        da \in Maybe("data", {Some([up |-> Some(<<>>)])}) }

OkBodies(t) ==
    CASE t \in {"list_incidents", "create_incident", "add_activity_to_incident",
                "resolve_incident", "search_dashboards", "list_datasources",
                "get_datasource_by_uid", "get_datasource_by_name"} -> {RawBody}
      [] t = "list_prometheus_metric_metadata" -> MetadataBodies
      [] t = "query_prometheus" -> QueryBodies
      [] t = "list_prometheus_metric_names" -> Envelopes(NamesLists)
      [] OTHER -> Envelopes(SeqsUpTo(Names, 1))

\* a failed request carries an error text, or for /api/ds/query a
\* DSQueryResponse describing the failure
ErrorBodies(t) ==
    IF t = "query_prometheus" THEN QueryBodies ELSE {ErrorBody}

----------------------------------------------------------------------------
(* Settings *)

\* GrafanaSettings(): every tool group is enabled and there is no api_key
\* unless the environment says otherwise
DefaultSettings ==
    [search |-> TRUE, datasources |-> TRUE, incident |-> TRUE,
     prometheus |-> TRUE, api_key |-> None]

\* the settings the environment may give
SettingsInputs ==
    [search : BOOLEAN, datasources : BOOLEAN, incident : BOOLEAN,
     prometheus : BOOLEAN, api_key : Optionally({"key"})]

----------------------------------------------------------------------------
(* Concurrent calls: the host runs each tool call as a coroutine of its own *)

\* the correlation identifiers of the calls that may be in flight together
Tasks == {"c1", "c2"}

\* a coroutine slot with no call in it
IdleCall == [pc |-> "idle", tool |-> "", args |-> None, outcome |-> NoOutcome]

\* the arguments the concurrent calls of search_dashboards are made with
ConcSearchInputs == { [query |-> None], [query |-> Some("x")] }

\* what the server answers a request of these tools with
ServerStatuses == {200, 500}
ServerBodies == {RawBody, ErrorBody}

----------------------------------------------------------------------------
(* Tool invocations *)

Init ==
    /\ pc = "idle" /\ tool = "" /\ args = None /\ http = <<>>
    /\ response = None /\ outcome = NoOutcome
    /\ stage = "start" /\ cls = "" /\ wire = None /\ encoder = ""
    /\ instance = None /\ dumped = <<>>
    /\ settings = DefaultSettings /\ registered = <<>> /\ rpc = "start"
    /\ calls = [i \in Tasks |-> IdleCall]
    /\ pool = [i \in Tasks |-> None]
    /\ received = [i \in Tasks |-> None]

\* the tool t is called with arguments a; r is what its code up to the
\* first await yields: a request handed to httpx, or an exception
Invoke(t, a, r) ==
    /\ pc = "idle"
    /\ tool' = t
    /\ args' = a
    /\ response' = None
    /\ IF r.ok
       THEN /\ pc' = "awaiting"
            /\ http' = Append(http, r.request)
            /\ outcome' = NoOutcome
       ELSE /\ pc' = "done"
            /\ http' = http
            /\ outcome' = Raise(r.error, "")
    /\ UNCHANGED <<typeVars, regVars, concVars>>

\* the host builds the ListIncidentsArguments of tools/incident.py from the
\* caller's dict; the tool runs when the dict validates
list_incidents ==
    /\ pc = "idle"
    /\ \E v \in ListIncidentsInputs :
        LET inst == Instance("tools.ListIncidentsArguments", v)
            a == [limit |-> Val(inst.fields["limit"]),
                  drill |-> Val(inst.fields["drill"]),
                  status |-> inst.fields["status"],
                  supplied |-> inst.set]
        IN  Invoke("list_incidents", a,
                   IF ValidationOk("tools.ListIncidentsArguments", v)
                   THEN list_incidents_request(a)
                   ELSE Failed("ValidationError"))

create_incident ==
    /\ pc = "idle"
    /\ \E v \in CreateIncidentInputs :
        /\ ValidationOk("CreateIncidentArguments", v)
        /\ LET a == Instance("CreateIncidentArguments", v)
           IN  Invoke("create_incident", a, create_incident_request(a))

add_activity_to_incident ==
    /\ pc = "idle"
    /\ \E id \in IncidentIds, body \in Texts, t \in Optionally(EventTimes) :
        LET a == [incident_id |-> id, body |-> body, event_time |-> t]
        IN  Invoke("add_activity_to_incident", a,
                   add_activity_to_incident_request(a))

resolve_incident ==
    /\ pc = "idle"
    /\ \E id \in IncidentIds, summary \in Texts :
        LET a == [incident_id |-> id, summary |-> summary]
        IN  Invoke("resolve_incident", a, resolve_incident_request(a))

list_datasources ==
    /\ pc = "idle"
    /\ Invoke("list_datasources", EmptyDict, list_datasources_request(EmptyDict))

get_datasource_by_uid ==
    /\ pc = "idle"
    /\ \E uid \in DatasourceUids :
        LET a == [uid |-> uid]
        IN  Invoke("get_datasource_by_uid", a, get_datasource_by_uid_request(a))

get_datasource_by_name ==
    /\ pc = "idle"
    /\ \E name \in DatasourceNames :
        LET a == [name |-> name]
        IN  Invoke("get_datasource_by_name", a, get_datasource_by_name_request(a))

\* a parameter the caller leaves out takes the default of the signature
list_prometheus_metric_metadata ==
    /\ pc = "idle"
    /\ \E uid \in DatasourceUids, limit \in Optionally(MetadataLimits),
       per \in Optionally(MetadataLimits), metric \in Optionally(Metrics) :
        LET a == [datasource_uid |-> uid,
                  limit |-> IF limit = None THEN MetadataDefaultLimit
                            ELSE Val(limit),
                  limit_per_metric |-> IF per = None
                                       THEN MetadataDefaultLimitPerMetric
                                       ELSE Val(per),
                  metric |-> metric,
                  supplied |-> Given([limit |-> limit, limit_per_metric |-> per])]
        IN  Invoke("list_prometheus_metric_metadata", a,
                   list_prometheus_metric_metadata_request(a))

query_prometheus ==
    /\ pc = "idle"
    /\ \E uid \in DatasourceUids, expr \in Exprs, start \in TimeInputs,
       end \in Optionally(TimeInputs), step \in Optionally(StepInputs),
       qt \in {"range", "instant"} :
        LET a == [datasource_uid |-> uid, expr |-> expr,
                  start_rfc3339 |-> start, end_rfc3339 |-> end,
                  step_seconds |-> step, query_type |-> qt]
        IN  Invoke("query_prometheus", a, query_prometheus_request(a))

\* the host builds the SearchDashboardsArguments from the caller's dict
search_dashboards ==
    /\ pc = "idle"
    /\ \E v \in SearchDashboardsInputs :
        /\ ValidationOk("SearchDashboardsArguments", v)
        /\ LET a == Instance("SearchDashboardsArguments", v)
           IN  Invoke("search_dashboards", a, search_dashboards_request(a))

list_prometheus_metric_names ==
    /\ pc = "idle"
    /\ \E uid \in DatasourceUids, regex \in Regexes,
       limit \in MetricNamesLimits, page \in 0..MaxPage :
        LET a == [datasource_uid |-> uid, regex |-> regex, limit |-> limit,
                  page |-> page]
        IN  Invoke("list_prometheus_metric_names", a,
                   list_prometheus_metric_names_request(a))

list_prometheus_label_names ==
    /\ pc = "idle"
    /\ \E uid \in DatasourceUids, matches \in MatchesInputs,
       start \in Optionally(LabelTimes), end \in Optionally(LabelTimes),
       limit \in Optionally(LabelLimits) :
        LET a == [datasource_uid |-> uid, matches |-> matches,
                  start |-> start, end |-> end,
                  limit |-> IF limit = None THEN LabelNamesDefaultLimit
                            ELSE Val(limit),
                  supplied |-> Given([limit |-> limit])]
        IN  Invoke("list_prometheus_label_names", a,
                   list_prometheus_label_names_request(a))

list_prometheus_label_values ==
    /\ pc = "idle"
    /\ \E uid \in DatasourceUids, label \in LabelNames, matches \in MatchesInputs,
       start \in Optionally(LabelTimes), end \in Optionally(LabelTimes),
       limit \in Optionally(LabelLimits) :
        LET a == [datasource_uid |-> uid, label_name |-> label,
                  matches |-> matches, start |-> start, end |-> end,
                  limit |-> IF limit = None THEN LabelValuesDefaultLimit
                            ELSE Val(limit),
                  supplied |-> Given([limit |-> limit])]
        IN  Invoke("list_prometheus_label_values", a,
                   list_prometheus_label_values_request(a))

\* the awaited request completes: get / post raise or return the bytes,
\* and the tool runs to its end
Received(r) ==
    /\ response' = Some(r)
    /\ outcome' = Transport(tool, args, r)

\* the transport sending the request once more after a failed answer
Respond_RetryOnFailure ==
    /\ pc = "awaiting"
    /\ \/ /\ \E st \in SuccessStatuses, b \in OkBodies(tool) :
                Received([status |-> st, body |-> b])
          /\ pc' = "done" /\ http' = http
       \/ /\ Len(http) >= 2
          /\ \E st \in FailureStatuses, b \in ErrorBodies(tool) :
                Received([status |-> st, body |-> b])
          /\ pc' = "done" /\ http' = http
       \/ /\ Len(http) < 2
          /\ \E st \in FailureStatuses, b \in ErrorBodies(tool) :
                response' = Some([status |-> st, body |-> b])
          /\ outcome' = NoOutcome
          /\ pc' = "awaiting" /\ http' = Append(http, http[Len(http)])
    /\ UNCHANGED <<tool, args, typeVars, regVars, concVars>>

Respond ==
    /\ pc = "awaiting"
    /\ \/ \E st \in SuccessStatuses, b \in OkBodies(tool) :
            Received([status |-> st, body |-> b])
       \/ \E st \in FailureStatuses, b \in ErrorBodies(tool) :
            Received([status |-> st, body |-> b])
    /\ pc' = "done"
    /\ UNCHANGED <<tool, args, http, typeVars, regVars, concVars>>

\* the invocation is over; the next one starts from nothing
Finish ==
    /\ pc = "done"
    /\ pc' = "idle" /\ tool' = "" /\ args' = None /\ http' = <<>>
    /\ response' = None /\ outcome' = NoOutcome
    /\ UNCHANGED <<typeVars, regVars, concVars>>

Next ==
    \/ list_datasources
    \/ get_datasource_by_uid
    \/ get_datasource_by_name
    \/ list_incidents
    \/ create_incident
    \/ add_activity_to_incident
    \/ resolve_incident
    \/ list_prometheus_metric_metadata
    \/ query_prometheus
    \/ search_dashboards
    \/ list_prometheus_metric_names
    \/ list_prometheus_label_names
    \/ list_prometheus_label_values
    \/ Respond
    \/ Finish

Spec == Init /\ [][Next]_vars

----------------------------------------------------------------------------
(* Round trips of the wire models: model_validate, then an encoder, then   *)
(* model_validate of the encoding, then the encoder again.                 *)

RoundTripClasses ==
    {"SearchDashboardsArguments", "Datasource", "DatasourceRef", "Query",
     "ListIncidentsArguments"}

DatasourceRefInputs ==
    { u @@ t :
        u \in Maybe("uid", {Some("prometheus")}),
        t \in Maybe("type", {Some("prometheus"), None}) }

QueryInputs ==
    { r @@ d @@ q @@ i @@ e @@ l @@ p :
        r \in Maybe("refId", {Some("A")}),
        d \in Surely("datasource",
                     { Some([uid |-> Some("prometheus"), type |-> Some("prometheus")]),
                       Some([uid |-> Some("prometheus")]) }),
        q \in Surely("queryType", {Some("range")}),
        i \in Maybe("intervalMs", {Some(10000), None}),
        e \in Maybe("expr", {Some("node_load1"), None}),
        l \in Maybe("legendFormat", {Some("x")}),
        p \in Maybe("interval_ms", {Some(5)}) }

ListIncidentsArgumentsInputs ==
    { q @@ l @@ st :
        q \in Maybe("query", {Some("machine learning"), None}),
        l \in Maybe("limit", {Some(10), Some(50), Some(0)}),
        st \in Maybe("status", {Some("active"), Some("bogus")}) }

DatasourceCore ==
    [id |-> Some(1), uid |-> Some("prometheus"), type |-> Some("prometheus"),
     name |-> Some("Prometheus"), user |-> Some(""), database |-> Some(""),
     url |-> Some("http://prometheus:9090"), access |-> Some("proxy"),
     isDefault |-> Some(TRUE)]

DatasourceInputs ==
    { DatasourceCore @@ b @@ u @@ j @@ sj :
        b \in Maybe("basicAuth", {Some(FALSE)}) \cup Surely("basic_auth", {Some(FALSE)}),
        u \in Maybe("basicAuthUser", {Some("admin"), None}),
        j \in Maybe("jsonData", {Some([httpMethod |-> Some("GET")])}),
        sj \in Maybe("secureJsonData", {Some([password |-> Some(TRUE)])}) }

SearchDashboardsWire ==
    { v @@ t : v \in SearchDashboardsInputs,
               t \in Maybe("type", {Some("dash-db"), Some("bogus")}) }

WireInputs(c) ==
    CASE c = "SearchDashboardsArguments" -> SearchDashboardsWire
      [] c = "Datasource" -> DatasourceInputs
      [] c = "DatasourceRef" -> DatasourceRefInputs
      [] c = "Query" -> QueryInputs
      [] c = "ListIncidentsArguments" -> ListIncidentsArgumentsInputs

\* Query is also encoded through the TypeAdapter of list[Query]
Encoders(c) ==
    {"model_dump"} \cup (IF c = "Query" THEN {"query_list.dump_python"} ELSE {})

EncodeWith(e, inst) ==
    IF e = "model_dump" THEN model_dump(inst, FALSE)
    ELSE query_list_dump_python(<<inst>>)[1]

Validate ==
    /\ stage = "start"
    /\ \E c \in RoundTripClasses :
        \E v \in WireInputs(c) :
            /\ cls' = c
            /\ wire' = v
            /\ instance' = ModelValidate(c, v)
    /\ stage' = "validated"
    /\ UNCHANGED <<encoder, dumped, toolVars, regVars, concVars>>

Encode ==
    /\ stage = "validated"
    /\ instance.ok
    /\ \E e \in Encoders(cls) :
        /\ encoder' = e
        /\ dumped' = <<EncodeWith(e, instance.inst)>>
    /\ stage' = "encoded"
    /\ UNCHANGED <<cls, wire, instance, toolVars, regVars, concVars>>

Decode ==
    /\ stage = "encoded"
    /\ instance' = ModelValidate(cls, dumped[1])
    /\ stage' = "decoded"
    /\ UNCHANGED <<cls, wire, encoder, dumped, toolVars, regVars, concVars>>

Reencode ==
    /\ stage = "decoded"
    /\ instance.ok
    /\ dumped' = Append(dumped, EncodeWith(encoder, instance.inst))
    /\ stage' = "reencoded"
    /\ UNCHANGED <<cls, wire, encoder, instance, toolVars, regVars, concVars>>

Restart ==
    /\ \/ stage = "reencoded"
       \/ stage \in {"validated", "decoded"} /\ ~instance.ok
    /\ stage' = "start" /\ cls' = "" /\ wire' = None /\ encoder' = ""
    /\ instance' = None /\ dumped' = <<>>
    /\ UNCHANGED <<toolVars, regVars, concVars>>

TypesNext == Validate \/ Encode \/ Decode \/ Reencode \/ Restart

TypesSpec == Init /\ [][TypesNext]_vars

----------------------------------------------------------------------------
(* Start-up: the settings are read, then add_tools of tools/__init__.py     *)
(* hands the tools of each enabled group to the host, group by group.      *)

SearchTools == << "search_dashboards" >>
DatasourcesTools ==
    << "list_datasources", "get_datasource_by_uid", "get_datasource_by_name" >>
IncidentTools ==
    << "list_incidents", "create_incident", "add_activity_to_incident",
       "resolve_incident" >>
PrometheusTools ==
    << "query_prometheus", "list_prometheus_metric_metadata",
       "list_prometheus_metric_names", "list_prometheus_label_names",
       "list_prometheus_label_values" >>

\* the prometheus group guarded by the flag of the group before it
enabled_FlagOfPreviousGroup(group) ==
    IF group = "prometheus" THEN settings["incident"] ELSE settings[group]

\* grafana_settings.tools.<group>.enabled
enabled(group) == settings[group]

\* grafana_settings = GrafanaSettings()
LoadSettings ==
    /\ rpc = "start"
    /\ settings' \in SettingsInputs
    /\ rpc' = "search"
    /\ UNCHANGED <<registered, toolVars, typeVars, concVars>>

\* one "if <group>.enabled: <group>.add_tools(mcp)" of add_tools; the
\* group's add_tools calls mcp.add_tool for each of its tools in turn
AddGroup(group, tools, next) ==
    /\ rpc = group
    /\ registered' = IF enabled(group) THEN registered \o tools ELSE registered
    /\ rpc' = next
    /\ UNCHANGED <<settings, toolVars, typeVars, concVars>>

search_add_tools == AddGroup("search", SearchTools, "datasources")
datasources_add_tools == AddGroup("datasources", DatasourcesTools, "incident")
incident_add_tools == AddGroup("incident", IncidentTools, "prometheus")
prometheus_add_tools == AddGroup("prometheus", PrometheusTools, "served")

RegistryNext ==
    \/ LoadSettings
    \/ search_add_tools
    \/ datasources_add_tools
    \/ incident_add_tools
    \/ prometheus_add_tools

RegistrySpec == Init /\ [][RegistryNext]_vars

----------------------------------------------------------------------------
(* Concurrent tool calls on the one grafana_client.  A coroutine runs from  *)
(* its start to its await of self.c.get / self.c.post, and from the         *)
(* response of that await to its end; between the two, other coroutines     *)
(* run and the server answers the requests in flight in any order.          *)

\* the coroutine of call i starts tool t with arguments a and runs to its
\* first await: r is the request it hands to the client, or its exception
Start(i, t, a, r) ==
    /\ calls[i].pc = "idle"
    /\ IF r.ok
       THEN /\ calls' = [calls EXCEPT ![i] =
                            [pc |-> "awaiting", tool |-> t, args |-> a,
                             outcome |-> NoOutcome]]
            /\ pool' = [pool EXCEPT ![i] = Some(r.request)]
       ELSE /\ calls' = [calls EXCEPT ![i] =
                            [pc |-> "done", tool |-> t, args |-> a,
                             outcome |-> Raise(r.error, "")]]
            /\ pool' = pool
    /\ UNCHANGED <<received, toolVars, typeVars, regVars>>

call_search_dashboards ==
    \E i \in Tasks, v \in ConcSearchInputs :
        /\ ValidationOk("SearchDashboardsArguments", v)
        /\ Start(i, "search_dashboards",
                 Instance("SearchDashboardsArguments", v),
                 search_dashboards_request(
                     Instance("SearchDashboardsArguments", v)))

call_resolve_incident ==
    \E i \in Tasks, id \in IncidentIds, summary \in Texts :
        Start(i, "resolve_incident", [incident_id |-> id, summary |-> summary],
              resolve_incident_request([incident_id |-> id, summary |-> summary]))

call_get_datasource_by_name ==
    \E i \in Tasks, name \in DatasourceNames :
        Start(i, "get_datasource_by_name", [name |-> name],
              get_datasource_by_name_request([name |-> name]))

\* the server answers the request of call i, whichever was sent first
ServerAnswers ==
    \E i \in Tasks, st \in ServerStatuses, b \in ServerBodies :
        /\ pool[i] # None /\ received[i] = None
        /\ received' = [received EXCEPT ![i] = Some([status |-> st, body |-> b])]
        /\ UNCHANGED <<calls, pool, toolVars, typeVars, regVars>>

\* the response of another call's request handed to the coroutine
Delivered_FirstAnswered(i) ==
    received[CHOOSE j \in Tasks : received[j] # None]

\* r = await self.c.get(...) / self.c.post(...): the coroutine is resumed
\* with the response of its own request
Delivered(i) == received[i]

\* the coroutine of call i resumes after its await and runs to its end
Resume ==
    \E i \in Tasks :
        /\ calls[i].pc = "awaiting" /\ received[i] # None
        /\ calls' = [calls EXCEPT
                        ![i].pc = "done",
                        ![i].outcome = Transport(calls[i].tool, calls[i].args,
                                                 Val(Delivered(i)))]
        /\ pool' = [pool EXCEPT ![i] = None]
        /\ UNCHANGED <<received, toolVars, typeVars, regVars>>

\* the result or error of call i goes back to its caller
Reply ==
    \E i \in Tasks :
        /\ calls[i].pc = "done"
        /\ calls' = [calls EXCEPT ![i] = IdleCall]
        /\ received' = [received EXCEPT ![i] = None]
        /\ UNCHANGED <<pool, toolVars, typeVars, regVars>>

ConcNext ==
    \/ call_search_dashboards
    \/ call_resolve_incident
    \/ call_get_datasource_by_name
    \/ ServerAnswers
    \/ Resume
    \/ Reply

ConcSpec == Init /\ [][ConcNext]_vars

----------------------------------------------------------------------------
(* Properties *)

Raised(e) == outcome.kind = "raise" /\ outcome.error = e

\* C1: every list_incidents call posts a QueryIncidentPreviews request whose
\* queryString is "isdrill:false" when drill is false and "" otherwise,
\* followed by " and status:<status>" when a status is given.
C1_QueryString ==
    (tool = "list_incidents" /\ pc # "idle" /\ ~Raised("ValidationError")) =>
        /\ Len(http) = 1
        /\ http[1].method = "POST"
        /\ LET qs == Val(Val(http[1].json["query"])["queryString"]) IN
           qs = CASE ~args.drill /\ args.status = None -> "isdrill:false"
                  [] ~args.drill /\ args.status = Some("resolved") ->
                         "isdrill:false and status:resolved"
                  [] ~args.drill /\ args.status = Some("active") ->
                         "isdrill:false and status:active"
                  [] args.drill /\ args.status = None -> ""
                  [] args.drill /\ args.status = Some("resolved") ->
                         " and status:resolved"
                  [] args.drill /\ args.status = Some("active") ->
                         " and status:active"

C1_Witness ==
    /\ tool = "list_incidents" /\ pc = "done"
    /\ args.drill /\ args.status = Some("active")
    /\ outcome.kind = "return"
    /\ Val(Val(http[1].json["query"])["queryString"]) = " and status:active"

\* C2: a range query_prometheus with end_rfc3339 or step_seconds missing
\* ends in a ValueError and issues no HTTP request at any point.
C2_RangeNeedsEndAndStep ==
    ( /\ tool = "query_prometheus" /\ pc # "idle"
      /\ args.query_type = "range"
      /\ (args.end_rfc3339 = None \/ args.step_seconds = None) ) =>
        /\ pc = "done"
        /\ Raised("ValueError")
        /\ http = <<>>
        /\ response = None

C2_Witness ==
    /\ tool = "query_prometheus" /\ pc = "done"
    /\ args.query_type = "range"
    /\ args.end_rfc3339 = None /\ args.step_seconds # None
    /\ Raised("ValueError") /\ http = <<>>

\* C3: an instant query_prometheus given neither end_rfc3339 nor
\* step_seconds posts a body whose "to" equals its "from" and whose single
\* query holds no intervalMs key.
C3_InstantOmitsInterval ==
    ( /\ tool = "query_prometheus" /\ pc # "idle"
      /\ args.query_type = "instant"
      /\ args.end_rfc3339 = None /\ args.step_seconds = None ) =>
        /\ Len(http) = 1
        /\ http[1].path = "/api/ds/query"
        /\ http[1].json["to"] = http[1].json["from"]
        /\ Len(Val(http[1].json["queries"])) = 1
        /\ "intervalMs" \notin DOMAIN Val(http[1].json["queries"])[1]

\* C4: search_dashboards with query None sends a GET to /api/search whose
\* query string has no "query" key; with query "x" it has query=x.
C4_SearchQueryKey ==
    (tool = "search_dashboards" /\ pc # "idle") =>
        /\ Len(http) = 1
        /\ http[1].method = "GET" /\ http[1].path = "/api/search"
        /\ args.fields["query"] = None => "query" \notin DOMAIN http[1].params
        /\ args.fields["query"] = Some("x") =>
              /\ "query" \in DOMAIN http[1].params
              /\ http[1].params["query"] = Some("x")


\* the names each regex of Regexes matches under re.match
MatchedBy(regex) ==
    CASE regex = "" -> {"a", "ab", "ba"}
      [] regex = "a" -> {"a", "ab"}
      [] regex = "b." -> {"ba"}
      [] regex = "." -> {"a", "ab", "ba"}

IsMatched(regex, name) == name \in MatchedBy(regex)

\* C5: with page >= 1, list_prometheus_metric_names returns the elements of
\* 0-based index (page-1)*limit, ..., page*limit - 1 of the "__name__"
\* values that the regex matches at position 0, in their original order,
\* and never more than limit of them.
C5_MetricNamesPage ==
    ( /\ tool = "list_prometheus_metric_names" /\ pc = "done"
      /\ args.page >= 1
      /\ is_success(Val(response).status)
      /\ {"status", "data"} \subseteq DOMAIN Val(response).body ) =>
        LET names == Val(Val(response).body["data"])
            kept == SelectSeq(names, LAMBDA n : IsMatched(args.regex, n))
            first == (args.page - 1) * args.limit
            last == args.page * args.limit
        IN  /\ outcome.kind = "return"
            /\ Len(outcome.value) <= args.limit
            /\ Len(outcome.value) =
                  IF Len(kept) <= first THEN 0
                  ELSE IF Len(kept) < last THEN Len(kept) - first
                  ELSE args.limit
            /\ \A i \in 1..Len(outcome.value) :
                  outcome.value[i] = kept[first + i]

C5_Witness ==
    /\ tool = "list_prometheus_metric_names" /\ pc = "done"
    /\ args.regex = "a" /\ args.page = 2 /\ args.limit = 1
    /\ is_success(Val(response).status)
    /\ {"status", "data"} \subseteq DOMAIN Val(response).body
    /\ Val(Val(response).body["data"]) = <<"ba", "a", "ab">>
    /\ outcome = Return(<<"ab">>)

\* C6: unwrapping an envelope that has a status and a data field returns
\* the value of data and nothing else, whatever the status string; an
\* envelope without a data field fails with a decode (validation) error.
C6_EnvelopeUnwrap ==
    ( /\ tool \in {"list_prometheus_label_names", "list_prometheus_label_values"}
      /\ pc = "done"
      /\ is_success(Val(response).status) ) =>
        LET body == Val(response).body IN
        /\ {"status", "data"} \subseteq DOMAIN body =>
              outcome = Return(Val(body["data"]))
        /\ "data" \notin DOMAIN body => Raised("ValidationError")

C6_Witness ==
    /\ tool = "list_prometheus_label_names" /\ pc = "done"
    /\ is_success(Val(response).status)
    /\ Val(response).body = [status |-> Some("error"), data |-> Some(<<"ab">>)]
    /\ outcome = Return(<<"ab">>)

\* the rendering of each selector of MatchesInputs
RenderedSelectors(matches) ==
    CASE matches = Some(<<>>) -> <<>>
      [] matches = Some(<<Selector(<<LabelMatcher("job", "node", None)>>)>>) ->
             << "{job='node'}" >>
      [] matches = Some(<<Selector(<<LabelMatcher("env", "prod", Some("!=")),
                                     LabelMatcher("job", "n.*", Some("~"))>>),
                          Selector(<<LabelMatcher("job", "node", Some("="))>>)>>) ->
             << "{env!='prod', job~'n.*'}", "{job='node'}" >>
      [] matches = Some(<<Selector(<<>>),
                          Selector(<<LabelMatcher("x", "y", Some("!~"))>>)>>) ->
             << "{}", "{x!~'y'}" >>

\* C7: a Selector renders as "{" + its matchers joined by ", " + "}", each
\* matcher as name, operator ("=" by default) and the value in single
\* quotes; the selectors given as matches become the match[] values of the
\* label-names / label-values request, one each, in the same order.
C7_SelectorRendering ==
    ( /\ tool \in {"list_prometheus_label_names", "list_prometheus_label_values"}
      /\ pc # "idle" ) =>
        /\ Len(http) = 1
        /\ args.matches = None => "match[]" \notin DOMAIN http[1].params
        /\ args.matches # None =>
              /\ "match[]" \in DOMAIN http[1].params
              /\ Val(http[1].params["match[]"]) = RenderedSelectors(args.matches)

C7_Witness ==
    /\ tool = "list_prometheus_label_values" /\ pc = "awaiting"
    /\ args.matches # None
    /\ Val(http[1].params["match[]"]) = << "{env!='prod', job~'n.*'}", "{job='node'}" >>


\* the keys of a Query dict that are not modelled fields
ExtraKeys(d) == (DOMAIN d) \ {"refId", "datasource", "queryType", "intervalMs"}

RECURSIVE NoNulls(_, _)
NoNulls(c, v) ==
    \A k \in DOMAIN v :
        /\ v[k] # None
        /\ \A i \in FieldIndex(c) :
              (ModelFields(c)[i].salias = k /\ ModelFields(c)[i].nested # "") =>
                  NoNulls(ModelFields(c)[i].nested, Val(v[k]))

\* the keys of the dict are wire names of the model (or, for a model that
\* allows them, extra keys)
WireKeyed(c, v) ==
    \A k \in DOMAIN v :
        \/ k \in SerializationAliases(c)
        \/ ExtraAllowed(c) /\ k \notin FieldNames(c)

\* C9: for SearchDashboardsArguments, Datasource, DatasourceRef, Query and
\* ListIncidentsArguments, a valid dict of non-null fields keyed by their
\* wire names comes back equal from model_validate followed by model_dump.
C9_WireRoundTrip ==
    ( /\ stage = "encoded" /\ encoder = "model_dump"
      /\ WireKeyed(cls, wire) /\ NoNulls(cls, wire) ) =>
        dumped[1] = wire

\* C10: every aliased field is emitted under its wire name, and decoding
\* takes the value given under the wire name, and under no other name, into
\* the attribute.
C10_AliasBothWays ==
    (stage \in {"validated", "encoded"} /\ instance.ok) =>
        \A i \in FieldIndex(cls) :
            LET f == ModelFields(cls)[i] IN
            f.salias # f.name =>
                /\ f.salias \in DOMAIN wire =>
                      /\ f.name \in instance.inst.set
                      /\ instance.inst.fields[f.name] = wire[f.salias]
                /\ f.salias \notin DOMAIN wire => f.name \notin instance.inst.set
                /\ (stage = "encoded" /\ f.name \in instance.inst.set
                        /\ instance.inst.fields[f.name] # None) =>
                      /\ f.salias \in DOMAIN dumped[1]
                      /\ dumped[1][f.salias] = instance.inst.fields[f.name]

\* C11: no request of any tool holds, in its JSON body or query string, an
\* optional field the caller gave no value for: limit of list_incidents,
\* limit of the label endpoints, limit and limitPerMetric of the metadata
\* endpoint, intervalMs of query_prometheus, the defaulted fields of
\* create_incident, and the nullable parameters of each.
C11_UnsuppliedNeverEmitted ==
    (pc # "idle" /\ Len(http) >= 1) =>
        LET req == http[1] IN
        /\ tool = "list_incidents" =>
              ("limit" \notin args.supplied =>
                   "limit" \notin DOMAIN Val(req.json["query"]))
        /\ tool \in {"list_prometheus_label_names", "list_prometheus_label_values"} =>
              /\ "limit" \notin args.supplied => "limit" \notin DOMAIN req.params
              /\ args.matches = None => "match[]" \notin DOMAIN req.params
              /\ args.start = None => "start" \notin DOMAIN req.params
              /\ args.end = None => "end" \notin DOMAIN req.params
        /\ tool = "list_prometheus_metric_metadata" =>
              /\ "limit" \notin args.supplied => "limit" \notin DOMAIN req.params
              /\ "limit_per_metric" \notin args.supplied =>
                     "limitPerMetric" \notin DOMAIN req.params
              /\ args.metric = None => "metric" \notin DOMAIN req.params
        /\ tool = "query_prometheus" =>
              (args.step_seconds = None =>
                   "intervalMs" \notin DOMAIN Val(req.json["queries"])[1])
        /\ tool = "create_incident" =>
              \A k \in {"severity", "roomPrefix", "isDrill", "status",
                        "attachCaption", "attachUrl", "labels"} :
                  (k \notin DOMAIN req.json) \/
                  (FieldBySalias("CreateIncidentArguments", k).name \in args.set
                       /\ args.fields[FieldBySalias("CreateIncidentArguments", k).name] # None)
        /\ tool = "add_activity_to_incident" =>
              (args.event_time = None => "eventTime" \notin DOMAIN req.json)

\* the invocation failed on an argument outside its documented range
PreconditionViolated ==
    \/ /\ tool = "query_prometheus" /\ args.query_type = "range"
       /\ (args.end_rfc3339 = None \/ args.step_seconds = None)
    \/ /\ tool = "list_prometheus_metric_names" /\ args.page < 1
       /\ Raised("ValueError")
    \/ /\ tool = "list_incidents" /\ (args.limit < 1 \/ args.limit > 100)

\* C12: an invocation that fails because its arguments violate a documented
\* precondition (a range query without end or step, a page below 1 for
\* list_prometheus_metric_names, a list_incidents limit outside 1..100) has
\* issued no HTTP request.
C12_PreconditionBeforeNetwork ==
    (pc = "done" /\ outcome.kind = "raise" /\ PreconditionViolated) =>
        http = <<>>

\* C13: an invocation never holds more than one HTTP request; once it has
\* ended (in a transport, decode or validation error, or a result) nothing
\* more is sent or produced for it, and a failure carries no result value.
C13_SingleRequestNoRetry ==
    [][ /\ Len(http') <= 1
        /\ pc = "done" => (pc' = "idle" /\ http' = <<>> /\ outcome' = NoOutcome)
        /\ (pc' = "done" /\ outcome'.kind = "raise") =>
              "value" \notin DOMAIN outcome' ]_vars

C13_Witness ==
    /\ pc = "done" /\ Raised("GrafanaError")
    /\ tool = "list_prometheus_metric_names" /\ Len(http) = 1
    /\ Val(response).status = 500

\* C14 (as amended): get and post hand the response body to the tool if and
\* only if the status is 2xx; for every other status they raise a
\* GrafanaError holding the body text, unchanged, and nothing else, so that
\* a failed /api/ds/query body still parses as a DSQueryResponse.
C14_TransportBodyOnly ==
    (pc = "done" /\ response # None) =>
        LET r == Val(response) IN
        /\ (r.status >= 200 /\ r.status <= 299) <=> ~Raised("GrafanaError")
        /\ (r.status >= 200 /\ r.status <= 299
                /\ tool \in {"list_incidents", "create_incident",
                             "add_activity_to_incident", "resolve_incident",
                             "search_dashboards", "list_datasources",
                             "get_datasource_by_uid", "get_datasource_by_name"}) =>
              outcome = Return(r.body)
        /\ (r.status < 200 \/ r.status > 299) =>
              /\ DOMAIN outcome = {"kind", "error", "detail"}
              /\ outcome.detail = r.body
              /\ tool = "query_prometheus" =>
                    ModelValidate("DSQueryResponse", outcome.detail)
                        = ModelValidate("DSQueryResponse", r.body)

C14_Witness ==
    /\ pc = "done" /\ tool = "query_prometheus"
    /\ Raised("GrafanaError")
    /\ Val(response).status = 400
    /\ ModelValidate("DSQueryResponse", outcome.detail).ok

\* C14 as stated: the error raised for a non-2xx status carries the HTTP
\* status beside the body text.
C14_ErrorCarriesStatus ==
    (pc = "done" /\ response # None
        /\ (Val(response).status < 200 \/ Val(response).status > 299)) =>
        /\ Raised("GrafanaError")
        /\ outcome.detail = Val(response).body
        /\ "status" \in DOMAIN outcome
        /\ outcome.status = Val(response).status

\* C15: the request of query_prometheus carries exactly one query, with
\* refId "A", datasource.uid the caller's datasource_uid, datasource.type
\* "prometheus", queryType the caller's query_type and expr the caller's
\* expr; for a range query intervalMs is step_seconds * 1000.
C15_SingleQueryBatch ==
    (tool = "query_prometheus" /\ Len(http) >= 1) =>
        LET queries == Val(http[1].json["queries"]) IN
        /\ http[1].method = "POST" /\ http[1].path = "/api/ds/query"
        /\ Len(queries) = 1
        /\ queries[1]["refId"] = Some("A")
        /\ Val(queries[1]["datasource"])
              = [uid |-> Some(args.datasource_uid), type |-> Some("prometheus")]
        /\ queries[1]["queryType"] = Some(args.query_type)
        /\ "expr" \in DOMAIN queries[1] /\ queries[1]["expr"] = Some(args.expr)
        /\ args.query_type = "range" =>
              queries[1]["intervalMs"] =
                  CASE args.step_seconds = Some(15) -> Some(15000)
                    [] args.step_seconds = Some(60) -> Some(60000)

C15_Witness ==
    /\ tool = "query_prometheus" /\ pc = "awaiting"
    /\ args.query_type = "range" /\ args.step_seconds = Some(15)
    /\ Val(http[1].json["queries"])[1]["intervalMs"] = Some(15000)

\* the whole milliseconds from the epoch to each time of TimeInputs
EpochMillisText(rfc3339) ==
    CASE rfc3339 = "1970-01-01T00:00:01+00:00" -> "1000"
      [] rfc3339 = "1970-01-01T00:00:02.000500+00:00" -> "2000"
      [] rfc3339 = "1970-01-01T00:00:01.001000+00:00" -> "1001"

\* the ISO-8601 text of each time of EventTimes and LabelTimes
IsoText(dt) ==
    CASE dt = [hour |-> 0, minute |-> 0, second |-> 1, microsecond |-> 0] ->
             "1970-01-01T00:00:01+00:00"
      [] dt = [hour |-> 0, minute |-> 0, second |-> 2, microsecond |-> 500] ->
             "1970-01-01T00:00:02.000500+00:00"

\* C16: "from" and "to" of the /api/ds/query body are the decimal text of
\* the whole milliseconds from the epoch to start and end; eventTime of
\* add_activity_to_incident and start / end of the label endpoints are
\* ISO-8601 texts.
C16_TimePerField ==
    Len(http) >= 1 =>
        /\ tool = "query_prometheus" =>
              /\ http[1].json["from"] = Some(EpochMillisText(args.start_rfc3339))
              /\ http[1].json["to"] =
                    Some(EpochMillisText(IF args.end_rfc3339 # None
                                         THEN Val(args.end_rfc3339)
                                         ELSE args.start_rfc3339))
        /\ (tool = "add_activity_to_incident" /\ args.event_time # None) =>
              http[1].json["eventTime"] = Some(IsoText(Val(args.event_time)))
        /\ tool \in {"list_prometheus_label_names", "list_prometheus_label_values"} =>
              /\ args.start # None =>
                    http[1].params["start"] = Some(IsoText(Val(args.start)))
              /\ args.end # None =>
                    http[1].params["end"] = Some(IsoText(Val(args.end)))

\* C17: every list_incidents request has query.orderDirection "DESC",
\* query.orderField "createdTime", includeCustomFieldValues true and
\* query.limit the caller's limit, whatever drill and status are.
C17_FixedOrdering ==
    (tool = "list_incidents" /\ Len(http) >= 1) =>
        LET query == Val(http[1].json["query"]) IN
        /\ query["orderDirection"] = Some("DESC")
        /\ query["orderField"] = Some("createdTime")
        /\ http[1].json["includeCustomFieldValues"] = Some(TRUE)
        /\ query["limit"] = Some(args.limit)
        /\ DOMAIN query = {"limit", "orderDirection", "orderField", "queryString"}
        /\ DOMAIN http[1].json = {"query", "includeCustomFieldValues"}

C17_Witness ==
    /\ tool = "list_incidents" /\ pc = "awaiting"
    /\ args.drill /\ args.status = Some("resolved") /\ args.limit = 100
    /\ "limit" \in args.supplied
    /\ Val(http[1].json["query"])["orderDirection"] = Some("DESC")
    /\ Val(http[1].json["query"])["limit"] = Some(100)

\* C18: add_activity_to_incident posts a body of exactly incidentId,
\* activityKind and body, and eventTime if and only if event_time was
\* given; activityKind is "userNote", and the wire argument with any other
\* activityKind does not validate.
C18_AddActivityBody ==
    (tool = "add_activity_to_incident" /\ pc # "idle") =>
        /\ Len(http) = 1
        /\ http[1].method = "POST"
        /\ http[1].path =
              "/api/plugins/grafana-incident-app/resources/api/ActivityService.AddActivity"
        /\ DOMAIN http[1].json =
              {"incidentId", "activityKind", "body"}
              \cup (IF args.event_time # None THEN {"eventTime"} ELSE {})
        /\ http[1].json["incidentId"] = Some(args.incident_id)
        /\ http[1].json["body"] = Some(args.body)
        /\ http[1].json["activityKind"] = Some("userNote")
        /\ \A kind \in {"userNote", "systemNote", "usernote", ""} :
              ModelValidate("AddActivityToIncidentArguments",
                            [http[1].json EXCEPT !["activityKind"] = Some(kind)]).ok
                  <=> kind = "userNote"

C18_Witness ==
    /\ tool = "add_activity_to_incident" /\ pc = "awaiting"
    /\ args.event_time = None
    /\ DOMAIN http[1].json = {"incidentId", "activityKind", "body"}

\* C19: resolve_incident posts to CloseIncident a body of exactly incidentID
\* and summary with the caller's values; incidentId is not a key there,
\* while the body of add_activity_to_incident has incidentId.
C19_CloseIncidentKeys ==
    /\ (tool = "resolve_incident" /\ pc # "idle") =>
          /\ Len(http) = 1
          /\ http[1].method = "POST"
          /\ http[1].path =
                "/api/plugins/grafana-incident-app/resources/api/IncidentsService.CloseIncident"
          /\ DOMAIN http[1].json = {"incidentID", "summary"}
          /\ http[1].json["incidentID"] = Some(args.incident_id)
          /\ http[1].json["summary"] = Some(args.summary)
    /\ (tool = "add_activity_to_incident" /\ Len(http) >= 1) =>
          /\ "incidentId" \in DOMAIN http[1].json
          /\ "incidentID" \notin DOMAIN http[1].json

C19_Witness ==
    /\ tool = "resolve_incident" /\ pc = "done" /\ outcome.kind = "return"
    /\ http[1].json = [incidentID |-> Some("42"), summary |-> Some("note")]

\* the group of each tool of the catalog
GroupOf(name) ==
    CASE name = "search_dashboards" -> "search"
      [] name \in {"list_datasources", "get_datasource_by_uid",
                   "get_datasource_by_name"} -> "datasources"
      [] name \in {"list_incidents", "create_incident",
                   "add_activity_to_incident", "resolve_incident"} -> "incident"
      [] name \in {"query_prometheus", "list_prometheus_metric_metadata",
                   "list_prometheus_metric_names", "list_prometheus_label_names",
                   "list_prometheus_label_values"} -> "prometheus"

Catalog ==
    {"list_datasources", "get_datasource_by_uid", "get_datasource_by_name",
     "search_dashboards", "list_incidents", "create_incident",
     "add_activity_to_incident", "resolve_incident", "query_prometheus",
     "list_prometheus_metric_metadata", "list_prometheus_metric_names",
     "list_prometheus_label_names", "list_prometheus_label_values"}

\* C20: once add_tools has run, a tool of the catalog is registered if and
\* only if the enabled flag of its group is true, no tool is registered
\* twice or from outside the catalog, and with every flag true the 13 tools
\* of the catalog are registered.
C20_RegisteredIffEnabled ==
    /\ \A i, j \in DOMAIN registered : registered[i] = registered[j] => i = j
    /\ \A i \in DOMAIN registered :
          registered[i] \in Catalog /\ settings[GroupOf(registered[i])]
    /\ rpc = "served" =>
          /\ \A name \in Catalog :
                (\E i \in DOMAIN registered : registered[i] = name)
                    <=> settings[GroupOf(name)]
          /\ (settings["search"] /\ settings["datasources"]
                  /\ settings["incident"] /\ settings["prometheus"]) =>
                Len(registered) = 13

C20_Witness ==
    /\ rpc = "served"
    /\ settings["search"] /\ ~settings["datasources"]
    /\ settings["incident"] /\ ~settings["prometheus"]
    /\ Len(registered) = 5

----------------------------------------------------------------------------
\* C22: for an instant query the request posted to /api/ds/query is the one
\* posted when neither end_rfc3339 nor step_seconds is given, whatever
\* values the caller gave them.
C22_InstantIgnoresEndAndStep ==
    (tool = "query_prometheus" /\ pc # "idle" /\ args.query_type = "instant") =>
        /\ Len(http) = 1
        /\ http[1] = query_prometheus_request(
                         [args EXCEPT !.end_rfc3339 = None,
                                      !.step_seconds = None]).request

----------------------------------------------------------------------------
\* C23: the arguments of list_incidents take limit 10, drill false and no
\* status where the caller gives none; they are accepted exactly when limit
\* is in 1..100 and status is absent, "resolved" or "active"; rejected
\* arguments raise ValidationError with no request sent, and accepted ones
\* send the one request built from them.
ListIncidentsAcceptable ==
    /\ args.limit >= 1 /\ args.limit <= 100
    /\ args.status \in {None, Some("resolved"), Some("active")}

C23_ListIncidentsArguments ==
    (tool = "list_incidents" /\ pc # "idle") =>
        /\ "limit" \notin args.supplied => args.limit = 10
        /\ "drill" \notin args.supplied => args.drill = FALSE
        /\ "status" \notin args.supplied => args.status = None
        /\ ~ListIncidentsAcceptable =>
              http = <<>> /\ pc = "done" /\ Raised("ValidationError")
        /\ ListIncidentsAcceptable =>
              /\ http = <<list_incidents_request(args).request>>
              /\ Val(http[1].json["query"])["limit"] = Some(args.limit)
              /\ ~Raised("ValidationError")

C23_Witness ==
    /\ tool = "list_incidents" /\ pc = "done"
    /\ args.limit = 101 /\ args.status = Some("active")
    /\ Raised("ValidationError") /\ http = <<>>

----------------------------------------------------------------------------
\* C24: list_prometheus_metric_names asks for the "__name__" label values
\* with limit 100 and no other parameter, whatever limit and page the caller
\* gave; every name it returns is one the server answered with; and when
\* the answer holds at most 100 names, a page starting at filtered position
\* 100 or later is empty.
C24_FixedFetchLimit ==
    (tool = "list_prometheus_metric_names" /\ pc # "idle") =>
        /\ http = << Get("/api/datasources/proxy/uid/" \o args.datasource_uid
                            \o "/api/v1/label/__name__/values",
                         "limit" :> Some(100)) >>
        /\ (pc = "done" /\ outcome.kind = "return") =>
              /\ \A i \in DOMAIN outcome.value :
                    \E j \in DOMAIN Val(Val(response).body["data"]) :
                        outcome.value[i] = Val(Val(response).body["data"])[j]
              /\ ( /\ Len(Val(Val(response).body["data"])) <= 100
                   /\ (args.page - 1) * args.limit >= 100 ) =>
                    outcome.value = <<>>

C24_Witness ==
    /\ tool = "list_prometheus_metric_names" /\ pc = "done"
    /\ args.limit = 100 /\ args.page = 2 /\ args.regex = "a"
    /\ outcome = Return(<<>>)
    /\ Len(Val(Val(response).body["data"])) = 100

----------------------------------------------------------------------------
\* C25: in the request search_dashboards sends, an argument whose value is
\* the default of its field is left out of the query string, also when the
\* caller gave that value, and an argument whose value is not the default
\* is there under its wire name with that value; the query string holds no
\* other key.
C25_SearchOmitsDefaults ==
    (tool = "search_dashboards" /\ Len(http) = 1) =>
        /\ DOMAIN http[1].params
              \subseteq SerializationAliases("SearchDashboardsArguments")
        /\ \A n \in FieldNames("SearchDashboardsArguments") :
              IF args.fields[n]
                    = FieldNamed("SearchDashboardsArguments", n).default
              THEN FieldNamed("SearchDashboardsArguments", n).salias
                       \notin DOMAIN http[1].params
              ELSE /\ FieldNamed("SearchDashboardsArguments", n).salias
                          \in DOMAIN http[1].params
                   /\ http[1].params[
                          FieldNamed("SearchDashboardsArguments", n).salias]
                        = args.fields[n]

C25_Witness ==
    /\ tool = "search_dashboards" /\ pc = "awaiting"
    /\ {"starred", "page", "limit", "dashboard_uids"} \subseteq args.set
    /\ args.fields["starred"] = Some(FALSE)
    /\ args.fields["page"] = Some(1)
    /\ args.fields["limit"] = Some(SearchLimitDefault)
    /\ http[1].params = [query |-> Some("x"), dashboardUIDs |-> Some(<<"u2">>)]

----------------------------------------------------------------------------
\* what tool t called with arguments a does up to its await when it runs
\* alone: the tool function of the sequential model
RequestAlone(t, a) ==
    CASE t = "search_dashboards" -> search_dashboards_request(a)
      [] t = "resolve_incident" -> resolve_incident_request(a)
      [] t = "get_datasource_by_name" -> get_datasource_by_name_request(a)

\* C21: whatever the other calls are doing, a call in flight holds exactly
\* the request it sends when run alone, and a call that has ended holds the
\* result or error it gives when run alone against the response the server
\* gave to its own request; a call not awaiting has no request in flight.
C21_CallsIsolated ==
    \A i \in Tasks :
        /\ calls[i].pc = "idle" => pool[i] = None /\ received[i] = None
        /\ calls[i].pc = "awaiting" =>
              /\ RequestAlone(calls[i].tool, calls[i].args).ok
              /\ pool[i] = Some(RequestAlone(calls[i].tool, calls[i].args).request)
        /\ calls[i].pc = "done" =>
              /\ pool[i] = None
              /\ calls[i].outcome =
                    IF RequestAlone(calls[i].tool, calls[i].args).ok
                    THEN Transport(calls[i].tool, calls[i].args, Val(received[i]))
                    ELSE Raise(RequestAlone(calls[i].tool, calls[i].args).error, "")

\* one call has failed on its response while the other, sent earlier or
\* later, ends with the result of its own
C21_Witness ==
    /\ calls["c1"].pc = "done" /\ calls["c1"].tool = "resolve_incident"
    /\ calls["c1"].outcome = Raise("GrafanaError", ErrorBody)
    /\ calls["c2"].pc = "done" /\ calls["c2"].tool = "search_dashboards"
    /\ calls["c2"].outcome = Return(RawBody)
    /\ received["c1"] = Some([status |-> 500, body |-> ErrorBody])
    /\ received["c2"] = Some([status |-> 200, body |-> RawBody])

====
